---- MODULE Spec2Model ----
(***************************************************************************)
(* A model of freedom-config (src/src/lib.rs): the Secret wrapper, the     *)
(* AtlasEnv variants Test and Prod, Config and ConfigBuilder.              *)
(*                                                                         *)
(* Strings are sequences of byte codes (ASCII), so that                    *)
(* to_ascii_lowercase and the formatting of Secret are computed, not       *)
(* assumed.  Option<T> is a sequence of length at most one: None is <<>>   *)
(* and Some(x) is <<x>>.  A Result is a record [tag, err, val] with        *)
(* val = <<x>> for Ok(x) carrying a Config.                                *)
(***************************************************************************)
EXTENDS Integers, Sequences, FiniteSets, TLC

VARIABLES
    vars,       \* the process environment: variable name -> state of the variable
    builder,    \* the ConfigBuilder under observation
    result,     \* what the last call returned
    lastOp,     \* the name of the last call
    hist,       \* history of the calls made on `builder` (observation only)
    c,          \* a Config
    p,          \* a second Config (a clone of c, or another Config)
    last,       \* the constructor / most recent set_* argument for each field of c
    sec,        \* two Secret<String> values
    shown       \* what formatting / exposing each of them last produced

allvars == <<vars, builder, result, lastOp, hist, c, p, last, sec, shown>>

(***************************************************************************)
(* Option and Result                                                       *)
(***************************************************************************)
None == <<>>
Some(x) == <<x>>

Err(e) == [tag |-> "Err", err |-> e, val |-> <<>>]
OkSelf == [tag |-> "OkSelf", err |-> "", val |-> <<>>]
OkConfig(cfg) == [tag |-> "Ok", err |-> "", val |-> <<cfg>>]
NoResult == [tag |-> "None", err |-> "", val |-> <<>>]

(***************************************************************************)
(* String literals of the source, as byte sequences                        *)
(***************************************************************************)
S_test == <<116, 101, 115, 116>>                 \* "test"
S_prod == <<112, 114, 111, 100>>                 \* "prod"
S_Secret == <<83, 101, 99, 114, 101, 116>>       \* "Secret"
S_stars == <<42, 42, 42, 42, 42>>                \* "*****"

\* u8::to_ascii_lowercase applied to every byte of the string
to_ascii_lowercase(val) ==
    [i \in 1..Len(val) |->
        IF val[i] >= 65 /\ val[i] <= 90 THEN val[i] + 32 ELSE val[i]]

(***************************************************************************)
(* Secret<T>                                                               *)
(***************************************************************************)
Secret(value) == <<value>>

Secret_expose(s) == s[1]

\* <str as Debug>::fmt for a string without characters that need escaping
str_Debug_fmt(s) == <<34>> \o s \o <<34>>

\* Formatter::debug_tuple(name).field(f).finish(); `alternate` is the # flag
debug_tuple_finish(name, field, alternate) ==
    IF alternate
    THEN name \o <<40, 10, 32, 32, 32, 32>> \o field \o <<44, 10, 41>>
    ELSE name \o <<40>> \o field \o <<41>>

\* Debug that formats the wrapped value instead of the placeholder
Secret_Debug_fmt_leak(s, alternate) ==
    debug_tuple_finish(S_Secret, str_Debug_fmt(s[1]), alternate)

Secret_Debug_fmt(s, alternate) ==
    debug_tuple_finish(S_Secret, str_Debug_fmt(S_stars), alternate)

Secret_Display_fmt(s, alternate) == Secret_Debug_fmt(s, alternate)

(***************************************************************************)
(* AtlasEnv and its variants                                               *)
(***************************************************************************)
Test == [name |-> "Test", tag |-> S_test, host |-> "fps.test.atlasground.com",
         entrypoint |-> "https://test-api.atlasground.com/api"]

Prod == [name |-> "Prod", tag |-> S_prod, host |-> "fps.atlasground.com",
         entrypoint |-> "https://api.atlasground.com/api"]

\* Variants defined outside the crate: one reuses the tag of Test
Mirror == [name |-> "Mirror", tag |-> S_test, host |-> "fps.mirror.example.com",
           entrypoint |-> "https://mirror.example.com/api"]

Stage == [name |-> "Stage", tag |-> <<115, 116, 97, 103, 101>>,
          host |-> "fps.stage.example.com",
          entrypoint |-> "https://stage.example.com/api"]

AtlasEnv == {Test, Prod, Mirror, Stage}

AsRef_str(env) == env.tag

\* from_str that compares without lower-casing
Test_from_str_exact(val) == IF val = S_test THEN Some(Test) ELSE None

Test_from_str(val) ==
    IF to_ascii_lowercase(val) = S_test THEN Some(Test) ELSE None

Prod_from_str(val) ==
    IF to_ascii_lowercase(val) = S_prod THEN Some(Prod) ELSE None

(***************************************************************************)
(* Config                                                                  *)
(***************************************************************************)
Config_new(environment, key, secret) ==
    [environment |-> environment, key |-> key, secret |-> Secret(secret)]

Config_environment(cfg) == cfg.environment
Config_environment_str(cfg) == AsRef_str(cfg.environment)
Config_expose_secret(cfg) == Secret_expose(cfg.secret)
Config_key(cfg) == cfg.key

\* equality that compares the whole environment, not only its tag
Config_eq_identity(a, b) ==
    /\ a.environment = b.environment
    /\ a.key = b.key
    /\ a.secret = b.secret

Config_eq(a, b) ==
    /\ Config_environment_str(a) = Config_environment_str(b)
    /\ a.key = b.key
    /\ a.secret = b.secret

Config_set_environment(cfg, environment) == [cfg EXCEPT !.environment = environment]

Config_set_key(cfg, key) == [cfg EXCEPT !.key = key]

\* set_secret that also overwrites the key
Config_set_secret_and_key(cfg, secret) ==
    [cfg EXCEPT !.secret = Secret(secret), !.key = secret]

Config_set_secret(cfg, secret) == [cfg EXCEPT !.secret = Secret(secret)]

(***************************************************************************)
(* The process environment                                                 *)
(***************************************************************************)
ATLAS_ENV_VAR == "ATLAS_ENV"
ATLAS_KEY_VAR == "ATLAS_KEY"
ATLAS_SECRET_VAR == "ATLAS_SECRET"
VarNames == {ATLAS_ENV_VAR, ATLAS_KEY_VAR, ATLAS_SECRET_VAR}

\* A variable is unset, set to a string, or set to bytes that are not Unicode
Unset == [kind |-> "Unset", val |-> <<>>]
NotUnicode == [kind |-> "NotUnicode", val |-> <<>>]
Str(s) == [kind |-> "Str", val |-> s]

\* std::env::var(name).map_err(|_| Error::ParseEnvironment), as an Option
env_var(env, name) ==
    IF env[name].kind = "Str" THEN Some(env[name].val) ELSE None

(***************************************************************************)
(* ConfigBuilder.  Every method is a function from the builder (and the    *)
(* process environment) to the returned Result and the builder afterwards. *)
(***************************************************************************)
ConfigBuilder_new == [environment |-> None, key |-> None, secret |-> None]

ConfigBuilder_environment(b, environment) ==
    [b EXCEPT !.environment = Some(environment)]

ConfigBuilder_secret(b, secret) == [b EXCEPT !.secret = Some(Secret(secret))]

\* setter that keeps a key already present
ConfigBuilder_key_keep_first(b, key) ==
    IF b.key = None THEN [b EXCEPT !.key = Some(key)] ELSE b

ConfigBuilder_key(b, key) == [b EXCEPT !.key = Some(key)]

environment_from_env(b, env) ==
    LET var == env_var(env, ATLAS_ENV_VAR) IN
    IF var = None THEN [res |-> Err("ParseEnvironment"), b |-> b]
    ELSE IF Test_from_str(var[1]) # None
    THEN [res |-> OkSelf, b |-> ConfigBuilder_environment(b, Test_from_str(var[1])[1])]
    ELSE IF Prod_from_str(var[1]) # None
    THEN [res |-> OkSelf, b |-> ConfigBuilder_environment(b, Prod_from_str(var[1])[1])]
    ELSE [res |-> Err("ParseEnvironment"), b |-> b]

\* loader that clears its field when the variable cannot be read
secret_from_env_clearing(b, env) ==
    LET var == env_var(env, ATLAS_SECRET_VAR) IN
    IF var = None
    THEN [res |-> Err("ParseEnvironment"), b |-> [b EXCEPT !.secret = None]]
    ELSE [res |-> OkSelf, b |-> ConfigBuilder_secret(b, var[1])]

secret_from_env(b, env) ==
    LET var == env_var(env, ATLAS_SECRET_VAR) IN
    IF var = None THEN [res |-> Err("ParseEnvironment"), b |-> b]
    ELSE [res |-> OkSelf, b |-> ConfigBuilder_secret(b, var[1])]

\* loader that returns Ok when the variable cannot be read
key_from_env_lenient(b, env) ==
    LET var == env_var(env, ATLAS_KEY_VAR) IN
    IF var = None THEN [res |-> OkSelf, b |-> b]
    ELSE [res |-> OkSelf, b |-> ConfigBuilder_key(b, var[1])]

key_from_env(b, env) ==
    LET var == env_var(env, ATLAS_KEY_VAR) IN
    IF var = None THEN [res |-> Err("ParseEnvironment"), b |-> b]
    ELSE [res |-> OkSelf, b |-> ConfigBuilder_key(b, var[1])]

\* build with the key checked before the environment
build_key_first(b) ==
    IF b.key = None
    THEN [res |-> Err("MissingKey"), b |-> b]
    ELSE IF b.environment = None
    THEN [res |-> Err("MissingEnvironment"), b |-> [b EXCEPT !.key = None]]
    ELSE IF b.secret = None
    THEN [res |-> Err("MissingSecret"),
          b |-> [b EXCEPT !.environment = None, !.key = None]]
    ELSE [res |-> OkConfig([environment |-> b.environment[1], key |-> b.key[1],
                            secret |-> b.secret[1]]),
          b |-> ConfigBuilder_new]

\* build that reads the fields and leaves them in the builder
build_no_take(b) ==
    IF b.environment = None THEN [res |-> Err("MissingEnvironment"), b |-> b]
    ELSE IF b.key = None THEN [res |-> Err("MissingKey"), b |-> b]
    ELSE IF b.secret = None THEN [res |-> Err("MissingSecret"), b |-> b]
    ELSE [res |-> OkConfig([environment |-> b.environment[1], key |-> b.key[1],
                            secret |-> b.secret[1]]),
          b |-> b]

\* Option::take on each field in turn, returning at the first None
build(b) ==
    IF b.environment = None
    THEN [res |-> Err("MissingEnvironment"), b |-> b]
    ELSE IF b.key = None
    THEN [res |-> Err("MissingKey"), b |-> [b EXCEPT !.environment = None]]
    ELSE IF b.secret = None
    THEN [res |-> Err("MissingSecret"),
          b |-> [b EXCEPT !.environment = None, !.key = None]]
    ELSE [res |-> OkConfig([environment |-> b.environment[1], key |-> b.key[1],
                            secret |-> b.secret[1]]),
          b |-> ConfigBuilder_new]

Config_builder == ConfigBuilder_new

\* Config::from_env: each `?` returns the error of the loader that failed
from_env(env) ==
    LET r1 == environment_from_env(Config_builder, env) IN
    IF r1.res.tag = "Err" THEN r1.res
    ELSE LET r2 == key_from_env(r1.b, env) IN
         IF r2.res.tag = "Err" THEN r2.res
         ELSE LET r3 == secret_from_env(r2.b, env) IN
              IF r3.res.tag = "Err" THEN r3.res
              ELSE build(r3.b).res

(***************************************************************************)
(* Inputs                                                                  *)
(***************************************************************************)
K1 == <<107, 49>>       \* "k1"
K2 == <<107, 50>>       \* "k2"
K3 == <<107, 51>>       \* "k3"
S1 == <<115, 49>>       \* "s1"
S2 == <<115, 50>>       \* "s2"
S3 == <<115, 51>>       \* "s3"
Empty == <<>>           \* ""

Fields == {"environment", "key", "secret"}

\* arguments of the builder's setters
SetterEnvs == {Test, Prod, Stage}
SetterKeys == {K1, K2}
SetterSecrets == {S1, S2}

\* process environments a builder is driven under
BuilderVars ==
    {[n \in VarNames |->
        CASE n = ATLAS_ENV_VAR -> e
          [] n = ATLAS_KEY_VAR -> k
          [] n = ATLAS_SECRET_VAR -> s] :
        e \in {Unset, Str(S_prod), Str(<<84, 101, 115, 116>>), Str(<<100, 101, 118>>)},
        k \in {Unset, Str(K3)},
        s \in {Unset, Str(S3)}}

HistInit ==
    [lastArg |-> [environment |-> None, key |-> None, secret |-> None],
     phase |-> "setters", overwrote |-> FALSE, setSince |-> {}, okBuilds |-> 0]

MaxOkBuilds == 2

\* the record of a setter call on field f with argument a
HistSet(h, f, a) ==
    IF h.phase = "setters"
    THEN [h EXCEPT !.lastArg[f] = Some(a),
                   !.overwrote = @ \/ (h.lastArg[f] # None /\ h.lastArg[f] # Some(a)),
                   !.setSince = @ \cup {f}]
    ELSE [h EXCEPT !.phase = "other", !.lastArg = HistInit.lastArg,
                   !.overwrote = FALSE, !.setSince = @ \cup {f}]

\* the record of a loader call on field f that returned res
HistLoad(h, f, res) ==
    [h EXCEPT !.phase = "other", !.lastArg = HistInit.lastArg, !.overwrote = FALSE,
              !.setSince = IF res.tag = "OkSelf" THEN @ \cup {f} ELSE @]

\* the record of a build call that returned res
HistBuild(h, res) ==
    IF h.phase = "setters"
    THEN [h EXCEPT !.phase = "built1",
                   !.setSince = IF res.tag = "Ok" THEN {} ELSE @,
                   !.okBuilds = IF res.tag = "Ok" /\ @ < MaxOkBuilds THEN @ + 1 ELSE @]
    ELSE [h EXCEPT !.phase = "other", !.lastArg = HistInit.lastArg,
                   !.overwrote = FALSE,
                   !.setSince = IF res.tag = "Ok" THEN {} ELSE @,
                   !.okBuilds = IF res.tag = "Ok" /\ @ < MaxOkBuilds THEN @ + 1 ELSE @]

(***************************************************************************)
(* Defaults of the variables a specification does not use                  *)
(***************************************************************************)
IdleVars == [n \in VarNames |-> Unset]
IdleConfig == Config_new(Test, K1, S1)
IdleLast == [environment |-> Test, key |-> K1, secret |-> S1]
IdleSec == [i \in 1..2 |-> Secret(Empty)]
NothingShown ==
    [debug |-> None, debugAlt |-> None, display |-> None, displayAlt |-> None,
     exposed |-> None]
IdleShown == [i \in 1..2 |-> NothingShown]

configVars == <<c, p, last>>
secretVars == <<sec, shown>>

(***************************************************************************)
(* Calls on the builder                                                    *)
(***************************************************************************)
New ==
    /\ builder' = ConfigBuilder_new
    /\ hist' = HistInit
    /\ result' = NoResult
    /\ lastOp' = "new"
    /\ UNCHANGED <<vars, configVars, secretVars>>

SetEnvironment ==
    \E e \in SetterEnvs :
        /\ builder' = ConfigBuilder_environment(builder, e)
        /\ hist' = HistSet(hist, "environment", e)
        /\ result' = OkSelf
        /\ lastOp' = "environment"
        /\ UNCHANGED <<vars, configVars, secretVars>>

SetKey ==
    \E k \in SetterKeys :
        /\ builder' = ConfigBuilder_key(builder, k)
        /\ hist' = HistSet(hist, "key", k)
        /\ result' = OkSelf
        /\ lastOp' = "key"
        /\ UNCHANGED <<vars, configVars, secretVars>>

SetSecret ==
    \E s \in SetterSecrets :
        /\ builder' = ConfigBuilder_secret(builder, s)
        /\ hist' = HistSet(hist, "secret", s)
        /\ result' = OkSelf
        /\ lastOp' = "secret"
        /\ UNCHANGED <<vars, configVars, secretVars>>

LoadEnvironment ==
    LET r == environment_from_env(builder, vars) IN
        /\ builder' = r.b
        /\ hist' = HistLoad(hist, "environment", r.res)
        /\ result' = r.res
        /\ lastOp' = "environment_from_env"
        /\ UNCHANGED <<vars, configVars, secretVars>>

LoadKey ==
    LET r == key_from_env(builder, vars) IN
        /\ builder' = r.b
        /\ hist' = HistLoad(hist, "key", r.res)
        /\ result' = r.res
        /\ lastOp' = "key_from_env"
        /\ UNCHANGED <<vars, configVars, secretVars>>

LoadSecret ==
    LET r == secret_from_env(builder, vars) IN
        /\ builder' = r.b
        /\ hist' = HistLoad(hist, "secret", r.res)
        /\ result' = r.res
        /\ lastOp' = "secret_from_env"
        /\ UNCHANGED <<vars, configVars, secretVars>>

Build ==
    LET r == build(builder) IN
        /\ builder' = r.b
        /\ hist' = HistBuild(hist, r.res)
        /\ result' = r.res
        /\ lastOp' = "build"
        /\ UNCHANGED <<vars, configVars, secretVars>>

\* Config::from_env() works on a builder of its own
FromEnv ==
    /\ result' = from_env(vars)
    /\ lastOp' = "from_env"
    /\ UNCHANGED <<vars, builder, hist, configVars, secretVars>>

InitBuilder ==
    /\ vars \in BuilderVars
    /\ builder = ConfigBuilder_new
    /\ hist = HistInit
    /\ result = NoResult
    /\ lastOp = "new"
    /\ c = IdleConfig /\ p = IdleConfig /\ last = IdleLast
    /\ sec = IdleSec /\ shown = IdleShown

NextBuilder ==
    \/ New
    \/ SetEnvironment
    \/ SetKey
    \/ SetSecret
    \/ LoadEnvironment
    \/ LoadKey
    \/ LoadSecret
    \/ Build

SpecBuilder == InitBuilder /\ [][NextBuilder]_allvars

(***************************************************************************)
(* Claims about ConfigBuilder, checked under SpecBuilder                   *)
(***************************************************************************)

\* C1: when at least one field is absent, build() returns the error of the
\* first absent field in the order environment, key, secret, whatever the
\* state of the later fields; it never returns ParseEnvironment, and with
\* all three present it returns Ok.
C1_FirstAbsenceReported ==
    [][lastOp' = "build" =>
        /\ builder.environment = None => result' = Err("MissingEnvironment")
        /\ (builder.environment # None /\ builder.key = None)
               => result' = Err("MissingKey")
        /\ (builder.environment # None /\ builder.key # None /\ builder.secret = None)
               => result' = Err("MissingSecret")
        /\ (builder.environment # None /\ builder.key # None /\ builder.secret # None)
               => result'.tag = "Ok"
        /\ result' # Err("ParseEnvironment")]_allvars

\* key and secret both absent: only the key is reported
C1_Witness ==
    /\ lastOp = "build"
    /\ result = Err("MissingKey")
    /\ builder.secret = None

\* C2: on a fresh builder, after setter calls only, each setter called at
\* least once, build() returns Ok with a Config carrying the argument of the
\* most recent call of each setter.
C2_LastSetterWins ==
    (/\ hist.phase = "built1"
     /\ hist.lastArg.environment # None
     /\ hist.lastArg.key # None
     /\ hist.lastArg.secret # None)
    => /\ result.tag = "Ok"
       /\ Config_environment_str(result.val[1]) = AsRef_str(hist.lastArg.environment[1])
       /\ Config_environment(result.val[1]) = hist.lastArg.environment[1]
       /\ Config_key(result.val[1]) = hist.lastArg.key[1]
       /\ Config_expose_secret(result.val[1]) = hist.lastArg.secret[1]

\* a build after some setter replaced an earlier, different value
C2_Witness ==
    /\ hist.phase = "built1"
    /\ hist.overwrote
    /\ result.tag = "Ok"

\* C6: a build() returns Ok only if each of the three fields was set by a
\* setter or loader since the previous build() that returned Ok (or since the
\* builder was created); a build() right after a build() that returned Ok
\* returns an error.
C6_NoReuseWithoutRepopulation ==
    [][/\ (lastOp' = "build" /\ result'.tag = "Ok") => hist.setSince = Fields
       /\ (lastOp = "build" /\ result.tag = "Ok" /\ lastOp' = "build")
              => result'.tag = "Err"]_allvars

\* a second successful build of the same builder
C6_Witness ==
    /\ lastOp = "build"
    /\ result.tag = "Ok"
    /\ hist.okBuilds = MaxOkBuilds

\* C7: after any build() call returns, the builder's environment, key and
\* secret are all absent.
C7_AllAbsentAfterBuild ==
    lastOp = "build" => builder = ConfigBuilder_new

\* C10: a loader that returns an error returns ParseEnvironment and leaves
\* all three builder fields as they were; a loader that succeeds changes
\* only its own field.
C10_FailedLoadKeepsBuilder ==
    [][/\ lastOp' = "environment_from_env" =>
            IF result'.tag = "Err"
            THEN result' = Err("ParseEnvironment") /\ builder' = builder
            ELSE builder'.key = builder.key /\ builder'.secret = builder.secret
       /\ lastOp' = "key_from_env" =>
            IF result'.tag = "Err"
            THEN result' = Err("ParseEnvironment") /\ builder' = builder
            ELSE /\ builder'.environment = builder.environment
                 /\ builder'.secret = builder.secret
       /\ lastOp' = "secret_from_env" =>
            IF result'.tag = "Err"
            THEN result' = Err("ParseEnvironment") /\ builder' = builder
            ELSE /\ builder'.environment = builder.environment
                 /\ builder'.key = builder.key]_allvars

\* a secret set by the setter is still there after the loader failed
C10_Witness ==
    /\ lastOp = "secret_from_env"
    /\ result = Err("ParseEnvironment")
    /\ builder.secret \in {Some(Secret(s)) : s \in SetterSecrets}

(***************************************************************************)
(* Values of ATLAS_ENV: every upper/lower-case spelling of the two tags    *)
(* and of strings close to them, and some strings that are neither         *)
(***************************************************************************)
ascii_upper(ch) == IF ch >= 97 /\ ch <= 122 THEN ch - 32 ELSE ch

RECURSIVE CaseVariants(_)
CaseVariants(w) ==
    IF w = <<>> THEN {<<>>}
    ELSE LET rest == CaseVariants(Tail(w)) IN
         {<<ch>> \o r : ch \in {Head(w), ascii_upper(Head(w))}, r \in rest}

NearWords ==
    {S_test, S_prod,
     <<116, 101, 115>>,                  \* "tes"
     <<116, 101, 115, 116, 116>>,        \* "testt"
     <<112, 114, 111>>,                  \* "pro"
     <<116, 115, 101, 116>>,             \* "tset"
     <<32, 116, 101, 115, 116>>,         \* " test"
     <<112, 114, 111, 100, 10>>,         \* "prod\n"
     <<100, 101, 118>>,                  \* "dev"
     Empty}

OtherWords ==
    {<<112, 114, 111, 100, 117, 99, 116, 105, 111, 110>>,   \* "production"
     <<116, 195, 169, 115, 116>>,                           \* "tést" in UTF-8
     <<116, 101, 115, 116, 112, 114, 111, 100>>,            \* "testprod"
     <<52, 37, 51, 52>>}                 \* "4%34": "test" - 64 on every byte

EnvStrings == (UNION {CaseVariants(w) : w \in NearWords}) \cup OtherWords

EnvValues == {Unset, NotUnicode} \cup {Str(s) : s \in EnvStrings}

\* process environments environment_from_env is driven under
ParseVars ==
    {[n \in VarNames |-> IF n = ATLAS_ENV_VAR THEN e ELSE Unset] : e \in EnvValues}

\* process environments from_env is driven under
FromEnvVars ==
    {[n \in VarNames |->
        CASE n = ATLAS_ENV_VAR -> e
          [] n = ATLAS_KEY_VAR -> k
          [] n = ATLAS_SECRET_VAR -> s] :
        e \in EnvValues,
        k \in {Unset, NotUnicode, Str(Empty), Str(K1)},
        s \in {Unset, NotUnicode, Str(Empty), Str(S1)}}

InitParse ==
    /\ vars \in ParseVars
    /\ builder = ConfigBuilder_new
    /\ hist = HistInit
    /\ result = NoResult
    /\ lastOp = "new"
    /\ c = IdleConfig /\ p = IdleConfig /\ last = IdleLast
    /\ sec = IdleSec /\ shown = IdleShown

NextParse ==
    \/ New
    \/ SetEnvironment
    \/ LoadEnvironment

SpecParse == InitParse /\ [][NextParse]_allvars

InitFromEnv ==
    /\ vars \in FromEnvVars
    /\ builder = ConfigBuilder_new
    /\ hist = HistInit
    /\ result = NoResult
    /\ lastOp = "new"
    /\ c = IdleConfig /\ p = IdleConfig /\ last = IdleLast
    /\ sec = IdleSec /\ shown = IdleShown

NextFromEnv ==
    \/ New
    \/ FromEnv

SpecFromEnv == InitFromEnv /\ [][NextFromEnv]_allvars

\* s spells the lower-case word w, each letter in either case
SpellsIgnoringAsciiCase(s, w) ==
    /\ Len(s) = Len(w)
    /\ \A i \in 1..Len(w) : s[i] = w[i] \/ s[i] = ascii_upper(w[i])

\* C4: from_env() returns Ok(cfg) with cfg equal to Config::new(V, k, s)
\* exactly when ATLAS_ENV is set to a string that spells the tag of the
\* built-in variant V and ATLAS_KEY = k and ATLAS_SECRET = s are set (taken
\* verbatim, the empty string included); in every other case it returns
\* Err(ParseEnvironment), never a Missing* error.
C4_FromEnv ==
    lastOp = "from_env" =>
        LET e == vars[ATLAS_ENV_VAR]
            k == vars[ATLAS_KEY_VAR]
            s == vars[ATLAS_SECRET_VAR]
            isTest == e.kind = "Str" /\ SpellsIgnoringAsciiCase(e.val, S_test)
            isProd == e.kind = "Str" /\ SpellsIgnoringAsciiCase(e.val, S_prod)
        IN  IF (isTest \/ isProd) /\ k.kind = "Str" /\ s.kind = "Str"
            THEN /\ result.tag = "Ok"
                 /\ Config_eq(result.val[1],
                              Config_new(IF isTest THEN Test ELSE Prod, k.val, s.val))
                 /\ Config_environment(result.val[1]) = (IF isTest THEN Test ELSE Prod)
                 /\ Config_key(result.val[1]) = k.val
                 /\ Config_expose_secret(result.val[1]) = s.val
            ELSE result = Err("ParseEnvironment")

\* ATLAS_ENV=prod, ATLAS_KEY=k1, ATLAS_SECRET=s1
C4_Witness ==
    /\ lastOp = "from_env"
    /\ vars[ATLAS_ENV_VAR] = Str(S_prod)
    /\ vars[ATLAS_KEY_VAR] = Str(K1)
    /\ vars[ATLAS_SECRET_VAR] = Str(S1)
    /\ result = OkConfig(Config_new(Prod, K1, S1))

\* C5: environment_from_env() returns Ok and leaves Test in the builder iff
\* ATLAS_ENV is set to a string that spells "test" in any mix of ASCII
\* cases, Ok with Prod iff it spells "prod", and Err(ParseEnvironment) iff
\* the variable is unset (or unreadable) or spells neither; no prefix or
\* longer string matches, and no string matches both.
C5_EnvironmentFromEnv ==
    lastOp = "environment_from_env" =>
        LET e == vars[ATLAS_ENV_VAR]
            isTest == e.kind = "Str" /\ SpellsIgnoringAsciiCase(e.val, S_test)
            isProd == e.kind = "Str" /\ SpellsIgnoringAsciiCase(e.val, S_prod)
        IN  /\ (result = OkSelf /\ builder.environment = Some(Test)) <=> isTest
            /\ (result = OkSelf /\ builder.environment = Some(Prod)) <=> isProd
            /\ (result = Err("ParseEnvironment")) <=> (~isTest /\ ~isProd)
            /\ result \in {OkSelf, Err("ParseEnvironment")}
            /\ ~(isTest /\ isProd)

\* a spelling of "test" that is not all lower case is resolved to Test
C5_Witness ==
    /\ lastOp = "environment_from_env"
    /\ result = OkSelf
    /\ vars[ATLAS_ENV_VAR].val \notin {S_test, S_prod}
    /\ builder.environment = Some(Test)

(***************************************************************************)
(* Calls on a Config                                                       *)
(***************************************************************************)
Configs ==
    {Config_new(e, k, s) : e \in AtlasEnv, k \in {K1, K2}, s \in {S1, S2}}

Bool(b) == [tag |-> "Bool", err |-> "", val |-> <<b>>]

builderVars == <<vars, builder, hist>>

ConfigSetEnvironment ==
    \E e \in AtlasEnv :
        /\ c' = Config_set_environment(c, e)
        /\ last' = [last EXCEPT !.environment = e]
        /\ result' = NoResult
        /\ lastOp' = "set_environment"
        /\ UNCHANGED <<p, builderVars, secretVars>>

ConfigSetKey ==
    \E k \in {K1, K2, K3} :
        /\ c' = Config_set_key(c, k)
        /\ last' = [last EXCEPT !.key = k]
        /\ result' = NoResult
        /\ lastOp' = "set_key"
        /\ UNCHANGED <<p, builderVars, secretVars>>

ConfigSetSecret ==
    \E s \in {S1, S2, S3} :
        /\ c' = Config_set_secret(c, s)
        /\ last' = [last EXCEPT !.secret = s]
        /\ result' = NoResult
        /\ lastOp' = "set_secret"
        /\ UNCHANGED <<p, builderVars, secretVars>>

\* p = c.clone()
ConfigClone ==
    /\ p' = c
    /\ result' = NoResult
    /\ lastOp' = "clone"
    /\ UNCHANGED <<c, last, builderVars, secretVars>>

\* c == p
ConfigEq ==
    /\ result' = Bool(Config_eq(c, p))
    /\ lastOp' = "eq"
    /\ UNCHANGED <<c, p, last, builderVars, secretVars>>

InitConfig ==
    /\ c \in Configs
    /\ p \in Configs
    /\ last = [environment |-> c.environment, key |-> c.key, secret |-> c.secret[1]]
    /\ result = NoResult
    /\ lastOp = "new"
    /\ vars = IdleVars /\ builder = ConfigBuilder_new /\ hist = HistInit
    /\ sec = IdleSec /\ shown = IdleShown

NextConfig ==
    \/ ConfigSetEnvironment
    \/ ConfigSetKey
    \/ ConfigSetSecret
    \/ ConfigClone
    \/ ConfigEq

SpecConfig == InitConfig /\ [][NextConfig]_allvars

\* C8: c == p holds iff the environment tag strings, the keys and the
\* exposed secrets are equal; nothing else of the environment is compared.
C8_ConfigEquality ==
    lastOp = "eq" =>
        (result.val[1] <=>
            /\ Config_environment_str(c) = Config_environment_str(p)
            /\ Config_key(c) = Config_key(p)
            /\ Config_expose_secret(c) = Config_expose_secret(p))

\* two Configs of different variants with one tag and different hosts are equal
C8_Witness ==
    /\ lastOp = "eq"
    /\ result = Bool(TRUE)
    /\ Config_environment(c).host # Config_environment(p).host
    /\ Config_environment(c).name # Config_environment(p).name

\* C9: each mutator replaces its own field with its argument and leaves the
\* other two as they were; after set_secret(s) the Config equals its prior
\* state iff s is the prior secret; after any mutator every accessor returns
\* the most recent set_* argument (or the constructor's value).
C9_MutatorsFrame ==
    [][/\ lastOp' = "set_secret" =>
            /\ Config_expose_secret(c') = last'.secret
            /\ Config_key(c') = Config_key(c)
            /\ Config_environment(c') = Config_environment(c)
            /\ Config_eq(c', c) <=> (last'.secret = Config_expose_secret(c))
       /\ lastOp' = "set_key" =>
            /\ Config_key(c') = last'.key
            /\ Config_expose_secret(c') = Config_expose_secret(c)
            /\ Config_environment(c') = Config_environment(c)
       /\ lastOp' = "set_environment" =>
            /\ Config_environment(c') = last'.environment
            /\ Config_environment_str(c') = AsRef_str(last'.environment)
            /\ Config_key(c') = Config_key(c)
            /\ Config_expose_secret(c') = Config_expose_secret(c)
       /\ /\ Config_environment(c') = last'.environment
          /\ Config_key(c') = last'.key
          /\ Config_expose_secret(c') = last'.secret]_allvars

\* set_secret made c differ from its clone p in the secret only
C9_Witness ==
    /\ lastOp = "set_secret"
    /\ ~Config_eq(c, p)
    /\ Config_expose_secret(c) # Config_expose_secret(p)
    /\ Config_key(c) = Config_key(p)
    /\ Config_environment(c) = Config_environment(p)

(***************************************************************************)
(* Calls on a Secret                                                       *)
(***************************************************************************)
SecretStrings == {S1, S2, S_stars}

\* Secret::from(v)
Wrap ==
    \E i \in 1..2, v \in SecretStrings :
        /\ sec' = [sec EXCEPT ![i] = Secret(v)]
        /\ shown' = [shown EXCEPT ![i] = NothingShown]
        /\ UNCHANGED <<result, lastOp, builderVars, configVars>>

\* format!("{:?}", s) and format!("{:#?}", s)
FmtDebug ==
    \E i \in 1..2 :
        /\ \/ shown' = [shown EXCEPT ![i].debug = Some(Secret_Debug_fmt(sec[i], FALSE))]
           \/ shown' = [shown EXCEPT ![i].debugAlt = Some(Secret_Debug_fmt(sec[i], TRUE))]
        /\ UNCHANGED <<sec, result, lastOp, builderVars, configVars>>

\* format!("{}", s) and format!("{:#}", s)
FmtDisplay ==
    \E i \in 1..2 :
        /\ \/ shown' = [shown EXCEPT ![i].display = Some(Secret_Display_fmt(sec[i], FALSE))]
           \/ shown' = [shown EXCEPT ![i].displayAlt = Some(Secret_Display_fmt(sec[i], TRUE))]
        /\ UNCHANGED <<sec, result, lastOp, builderVars, configVars>>

Expose ==
    \E i \in 1..2 :
        /\ shown' = [shown EXCEPT ![i].exposed = Some(Secret_expose(sec[i]))]
        /\ UNCHANGED <<sec, result, lastOp, builderVars, configVars>>

InitSecret ==
    /\ sec \in [1..2 -> {Secret(v) : v \in SecretStrings}]
    /\ shown = IdleShown
    /\ result = NoResult
    /\ lastOp = "new"
    /\ vars = IdleVars /\ builder = ConfigBuilder_new /\ hist = HistInit
    /\ c = IdleConfig /\ p = IdleConfig /\ last = IdleLast

NextSecret ==
    \/ Wrap
    \/ FmtDebug
    \/ FmtDisplay
    \/ Expose

SpecSecret == InitSecret /\ [][NextSecret]_allvars

Redacted == <<83, 101, 99, 114, 101, 116, 40, 34, 42, 42, 42, 42, 42, 34, 41>>

\* C3: whatever the wrapped values, Debug and Display of every Secret give
\* one and the same text, Secret("*****") (and one and the same text under
\* the # flag); only expose() gives the wrapped value.
C3_Redaction ==
    LET plain == UNION {{shown[i].debug, shown[i].display} : i \in 1..2} \ {None}
        alt == UNION {{shown[i].debugAlt, shown[i].displayAlt} : i \in 1..2} \ {None}
    IN  /\ plain \subseteq {Some(Redacted)}
        /\ Cardinality(alt) <= 1
        /\ \A i \in 1..2 : shown[i].exposed \in {None, Some(sec[i][1])}

\* two different secrets, one formatted with Debug and the other with Display
C3_Witness ==
    /\ sec[1] # sec[2]
    /\ sec[1] # Secret(S_stars)
    /\ shown[1].debug # None
    /\ shown[2].display # None
    /\ shown[1].debugAlt # None
    /\ shown[2].displayAlt # None
    /\ shown[1].exposed = Some(S1)

====
